---- MODULE Spec2Model ----
(***************************************************************************)
(* Model of the loading utilities of the 2.7 React.lazy + Suspense host:   *)
(*   - createRemoteLoader / loadWithRetry   (utils/remoteLoader.ts)        *)
(*   - preloadRemoteModule and its cache    (utils/preloader.ts)           *)
(*   - the host App, RemoteErrorBoundary and SmartSuspense                 *)
(* and of the React 19 host / React 18 remote demo:                        *)
(*   - the remote's mount/unmount wrapper   (remote/src/RemoteWrapper.tsx) *)
(*   - the host App that imports and mounts it     (host/src/App.tsx)      *)
(* Time is a fake-timer clock: `now` only moves when the earliest pending  *)
(* setTimeout callback runs; promises settle at the current instant.       *)
(***************************************************************************)
EXTENDS Integers, Sequences, FiniteSets, TLC

(* ------------------------------ bounds --------------------------------- *)

\* number of invocations of one loader that are followed
MaxInvocations ==
  2

\* number of preloadRemoteModule calls that are followed
MaxPreloadCalls ==
  3

\* number of suspensions of one SmartSuspense's child that are followed
MaxSuspensions ==
  2

\* number of renders of a RemoteErrorBoundary's children that are followed
MaxChildRenders ==
  10

\* number of calls of the remote wrapper's mount/unmount that are followed
MaxWrapperCalls ==
  5

\* number of times the React 19 host App is mounted; every mount has its own
\* container element
\* number of times the props of one SmartSuspense are changed by its parent
MaxPropChanges ==
  2

MaxHostMounts ==
  3

(* ------------------------- program constants --------------------------- *)

\* SmartSuspense's default minLoadingTime, also passed by the host App
DefaultMinLoadingTime ==
  200

\* SmartSuspense's default timeout
DefaultTimeout ==
  10000

\* timeout={15000} of the SmartSuspense around RemoteApp
RemoteAppTimeout ==
  15000

\* RemoteErrorBoundary's `private maxRetries = 3`
BoundaryMaxRetries ==
  3

\* createRemoteLoader's default maxRetries, and the value the host App passes
DefaultMaxRetries ==
  3

\* createRemoteLoader's default baseDelay, and the value the host App passes
DefaultBaseDelay ==
  1000

(* ------------------------------ inputs --------------------------------- *)

Invocations ==
  1..MaxInvocations

\* values a factory may resolve with (module objects)
Values ==
  {"v1", "v2"}

\* the message of the error the factory rejects its k-th call of an
\* invocation with: every rejection has its own error
ErrorOfCall(k) ==
  <<"import failed", k>>

\* succeedAt = NeverSucceeds: the factory rejects on every call
NeverSucceeds ==
  0

\* the maxRetries arguments createRemoteLoader is given
RetryChoices ==
  {0, 1, 2, DefaultMaxRetries}

BaseDelayChoices ==
  {1, DefaultBaseDelay}

\* the call (1-based, per invocation) on which the factory resolves; a loader
\* with mr retries never makes more than mr + 1 calls in one invocation
SucceedAtChoices(mr) ==
  {NeverSucceeds} \cup (1..(mr + 1))

\* module identifiers given to preloadRemoteModule ('RemoteApp' by the host App)
ModuleNames ==
  {"RemoteApp", "RemoteButton"}

\* the import functions handed to preloadRemoteModule
ImportFns ==
  {"importRemoteApp", "importRemoteButton"}

\* the two lazy sections of the host App, each under its own SmartSuspense
Sections ==
  {"RemoteApp", "RemoteAppWithFallback"}

\* how long a load of a SmartSuspense's child takes (ms): shorter than
\* minLoadingTime, between minLoadingTime and timeout, longer than timeout
LoadDurations ==
  {50, 300, 20000}

\* the errors a RemoteErrorBoundary's children throw while rendering
RenderErrors ==
  {"render failed", "load failed"}

\* the DOM elements handed to the wrapper's mount(): one container per host mount
Elements ==
  1..MaxHostMounts

\* remoteRef.current === null
NoElement ==
  0

\* `let root: Root | null = null`
NoRoot ==
  0

NoTimer ==
  -1

\* Map.get of an absent key
NoPromise ==
  0

NoValue ==
  "none"

VARIABLES
  maxRetries,         \* createRemoteLoader argument
  baseDelay,          \* createRemoteLoader argument
  retryCount,         \* `let retryCount = 0` of the createRemoteLoader closure
  inv,                \* the invocations of loadWithRetry, one record each
  now,                \* the clock (ms)
  remoteModuleCache,  \* preloader.ts: Map<string, Promise>, as name -> promise id
  imports,            \* the promises made by import(): <<[fn, status]>>, id = index
  preloadLog,         \* history of preloadRemoteModule calls and what each returned
  isOnline,           \* useNetworkStatus().isOnline
  mounted,            \* whether the host App's effects have run after its first render
  ss,                 \* the SmartSuspense instance of each section
  state,              \* RemoteErrorBoundary's this.state
  props,              \* the minLoadingTime and timeout props of each SmartSuspense
  child,              \* the suspensions of each SmartSuspense's child
  boundary,           \* RemoteErrorBoundary's fallback prop, renders and clicks
  effect,             \* the runs of each SmartSuspense's effect and the timers they left behind
  root,               \* RemoteWrapper.tsx: `let root: Root | null`
  roots,              \* the roots createRoot() has made: <<[container, rendered, unmounts]>>
  wrapperLog,         \* the calls of the wrapper's mount and unmount
  host,               \* the React 19 host App: mounted, and which mount it is
  hostImports         \* the import('remote/App') promises of the React 19 host

loaderVars ==
  <<maxRetries, baseDelay, retryCount, inv>>

cacheVars ==
  <<remoteModuleCache, imports, preloadLog>>

uiVars ==
  <<isOnline, mounted, ss, state>>

\* the state of a SmartSuspense and of a RemoteErrorBoundary taken alone
unitVars ==
  <<props, child, boundary, effect>>

\* the state of the React 19 host / React 18 remote demo
demoVars ==
  <<root, roots, wrapperLog, host, hostImports>>

vars ==
  <<maxRetries, baseDelay, retryCount, inv, now, remoteModuleCache, imports,
    preloadLog, isOnline, mounted, ss, state, props, child, boundary, effect,
    root, roots, wrapperLog, host, hostImports>>

(* --------------------------- pure helpers ------------------------------ *)

RECURSIVE Pow2(_)
\* Math.pow(2, n) for n >= 0
Pow2(n) ==
  IF n <= 0 THEN 1 ELSE 2 * Pow2(n - 1)

RECURSIVE SumSeq(_)
SumSeq(s) ==
  IF s = <<>> THEN 0 ELSE Head(s) + SumSeq(Tail(s))

\* const delay = baseDelay * Math.pow(2, retryCount - 1), retryCount already incremented
delay(rc) ==
  baseDelay * Pow2(rc - 1)

\* new Error(`Failed to load remote after ${maxRetries} attempts: ${error.message}`)
LoadError(e) ==
  [name |-> "Error", attempts |-> maxRetries, cause |-> e]

\* one invocation of loadWithRetry before it is called
IdleInvocation ==
  [pc |-> "idle", calls |-> 0, succeedAt |-> NeverSucceeds, value |-> NoValue,
   lastError |-> NoValue, delays |-> <<>>, startedAt |-> NoTimer, failedAt |-> NoTimer,
   wakeAt |-> NoTimer, result |-> NoValue, error |-> NoValue, settledAt |-> NoTimer,
   rcAtStart |-> 0, overlapped |-> FALSE]

\* the due times of the loader's pending setTimeout callbacks
LoaderTimers ==
  {inv[i].wakeAt : i \in {j \in Invocations : inv[j].pc = "sleeping"}}

\* the due times of the pending setTimeout callbacks of the SmartSuspenses
SuspenseTimers ==
  {ss[c].minTimer : c \in {d \in Sections : ss[d].minTimer # NoTimer}}
    \cup {ss[c].timeoutTimer : c \in {d \in Sections : ss[d].timeoutTimer # NoTimer}}

\* the times at which the pending loads of SmartSuspense children end
ChildTimers ==
  {child[c].until : c \in {d \in Sections : child[d].suspended}}

PendingTimers ==
  LoaderTimers \cup SuspenseTimers \cup ChildTimers

\* a timer callback runs only when no other pending timer is due earlier
IsNextTimer(due) ==
  /\ due \in PendingTimers
  /\ \A d \in PendingTimers : due <= d

Running(i) ==
  inv[i].pc \in {"awaiting", "sleeping"}

(* ------------------------ createRemoteLoader --------------------------- *)

\* createRemoteLoader(importFn, maxRetries, baseDelay): a fresh closure
createRemoteLoader(mr, bd) ==
  /\ maxRetries = mr
  /\ baseDelay = bd
  /\ retryCount = 0
  /\ inv = [i \in Invocations |-> IdleInvocation]

\* the `try { return await importFn() }` of loadWithRetry: importFn is called
\* synchronously, at time t, and the invocation waits for its promise
CallImportFn(r, t) ==
  [r EXCEPT !.pc = "awaiting", !.calls = @ + 1,
            !.startedAt = t, !.wakeAt = NoTimer]

\* mutant of Invoke: every invocation starts with a retry counter of its own
Invoke_ResetsRetryCount(i, n) ==
  /\ inv[i].pc = "idle"
  /\ \A j \in Invocations : j < i => inv[j].pc # "idle"
  /\ inv' = [j \in Invocations |->
              IF j = i
                THEN CallImportFn([inv[i] EXCEPT
                       !.succeedAt = n, !.rcAtStart = retryCount,
                       !.overlapped = \E k \in Invocations : Running(k)], now)
                ELSE IF Running(j) THEN [inv[j] EXCEPT !.overlapped = TRUE]
                ELSE inv[j]]
  /\ retryCount' = 0
  /\ UNCHANGED <<maxRetries, baseDelay, now>>

\* loader(): a caller invokes loadWithRetry. succeedAt fixes how the factory
\* answers this invocation's calls.
Invoke(i, n) ==
  /\ inv[i].pc = "idle"
  /\ \A j \in Invocations : j < i => inv[j].pc # "idle"
  /\ inv' = [j \in Invocations |->
              IF j = i
                THEN CallImportFn([inv[i] EXCEPT
                       !.succeedAt = n, !.rcAtStart = retryCount,
                       !.overlapped = \E k \in Invocations : Running(k)], now)
                ELSE IF Running(j) THEN [inv[j] EXCEPT !.overlapped = TRUE]
                ELSE inv[j]]
  /\ UNCHANGED <<maxRetries, baseDelay, retryCount, now>>

\* importFn()'s promise fulfils with v: `return await importFn()`
ImportResolves(i, v) ==
  /\ inv[i].pc = "awaiting"
  /\ inv[i].calls = inv[i].succeedAt
  /\ inv' = [inv EXCEPT ![i].pc = "resolved", ![i].value = v, ![i].result = v,
                        ![i].settledAt = now]
  /\ UNCHANGED <<maxRetries, baseDelay, retryCount, now>>

\* mutant of ImportRejects: every invocation counts its own retries
ImportRejects_CountsPerInvocation(i) ==
  /\ inv[i].pc = "awaiting"
  /\ inv[i].calls # inv[i].succeedAt
  /\ LET e == ErrorOfCall(inv[i].calls) IN
     IF inv[i].calls <= maxRetries
       THEN inv' = [inv EXCEPT ![i].pc = "sleeping", ![i].lastError = e,
                      ![i].failedAt = now,
                      ![i].delays = Append(@, delay(inv[i].calls)),
                      ![i].wakeAt = now + delay(inv[i].calls)]
       ELSE inv' = [inv EXCEPT ![i].pc = "rejected", ![i].lastError = e,
                      ![i].failedAt = now,
                      ![i].error = LoadError(e), ![i].settledAt = now]
  /\ UNCHANGED <<maxRetries, baseDelay, retryCount, now>>

\* importFn()'s promise rejects with error e: the catch block
ImportRejects(i) ==
  /\ inv[i].pc = "awaiting"
  /\ inv[i].calls # inv[i].succeedAt
  /\ LET e == ErrorOfCall(inv[i].calls) IN
     IF retryCount < maxRetries
       THEN /\ retryCount' = retryCount + 1
            /\ inv' = [inv EXCEPT ![i].pc = "sleeping", ![i].lastError = e,
                         ![i].failedAt = now,
                         ![i].delays = Append(@, delay(retryCount + 1)),
                         ![i].wakeAt = now + delay(retryCount + 1)]
       ELSE /\ retryCount' = retryCount
            /\ inv' = [inv EXCEPT ![i].pc = "rejected", ![i].lastError = e,
                         ![i].failedAt = now,
                         ![i].error = LoadError(e), ![i].settledAt = now]
  /\ UNCHANGED <<maxRetries, baseDelay, now>>

\* mutant of BackoffElapsed: the timer runs but loadWithRetry is not called again
BackoffElapsed_NeverResumes(i) ==
  /\ inv[i].pc = "sleeping"
  /\ IsNextTimer(inv[i].wakeAt)
  /\ now' = inv[i].wakeAt
  /\ UNCHANGED <<maxRetries, baseDelay, retryCount, inv>>

\* the setTimeout(resolve, delay) callback runs: `return loadWithRetry()`
BackoffElapsed(i) ==
  /\ inv[i].pc = "sleeping"
  /\ IsNextTimer(inv[i].wakeAt)
  /\ now' = inv[i].wakeAt
  /\ inv' = [inv EXCEPT ![i] = CallImportFn(inv[i], inv[i].wakeAt)]
  /\ UNCHANGED <<maxRetries, baseDelay, retryCount>>

(* --------------------------- preloader.ts ------------------------------ *)

\* the module-level state of preloader.ts together with the promises it made
CacheState ==
  [cache |-> remoteModuleCache, imports |-> imports, log |-> preloadLog]

\* mutant of CacheHas: the has() check never finds the entry
CacheHas_NeverFound(cs, moduleName) ==
  FALSE

\* mutant of CacheHas: an entry whose promise rejected counts as absent
CacheHas_EvictsRejected(cs, moduleName) ==
  /\ cs.cache[moduleName] # NoPromise
  /\ cs.imports[cs.cache[moduleName]].status # "rejected"

\* remoteModuleCache.has(moduleName)
CacheHas(cs, moduleName) ==
  cs.cache[moduleName] # NoPromise

\* importFn(): a dynamic import() makes a new pending promise
NewImport(imps, importFn) ==
  Append(imps, [fn |-> importFn, status |-> "pending"])

\* preloadRemoteModule(moduleName, importFn) applied to the state cs; the last
\* log entry holds the promise the call returned
Preload(cs, moduleName, importFn) ==
  LET miss == ~CacheHas(cs, moduleName)
      imps == IF miss THEN NewImport(cs.imports, importFn) ELSE cs.imports
      cache == IF miss THEN [cs.cache EXCEPT ![moduleName] = Len(imps)]
                       ELSE cs.cache
  IN  [cache |-> cache,
       imports |-> imps,
       log |-> Append(cs.log, [moduleName |-> moduleName, importFn |-> importFn,
                               invoked |-> miss, returned |-> cache[moduleName]])]

\* a caller calls preloadRemoteModule(moduleName, importFn)
preloadRemoteModule(moduleName, importFn) ==
  /\ Len(preloadLog) < MaxPreloadCalls
  /\ LET cs == Preload(CacheState, moduleName, importFn)
     IN  /\ remoteModuleCache' = cs.cache
         /\ imports' = cs.imports
         /\ preloadLog' = cs.log

\* the promise of an import() fulfils
PromiseResolves(p) ==
  /\ p \in DOMAIN imports
  /\ imports[p].status = "pending"
  /\ imports' = [imports EXCEPT ![p].status = "resolved"]
  /\ UNCHANGED <<remoteModuleCache, preloadLog>>

\* the promise of an import() rejects
PromiseRejects(p) ==
  /\ p \in DOMAIN imports
  /\ imports[p].status = "pending"
  /\ imports' = [imports EXCEPT ![p].status = "rejected"]
  /\ UNCHANGED <<remoteModuleCache, preloadLog>>

\* `const remoteModuleCache = new Map()` at module load
EmptyCache ==
  /\ remoteModuleCache = [m \in ModuleNames |-> NoPromise]
  /\ imports = <<>>
  /\ preloadLog = <<>>

(* ---------------------------- SmartSuspense ---------------------------- *)

\* a timeout prop smaller than the default minLoadingTime
ShortTimeout ==
  100

\* the props the host App passes: minLoadingTime={200} to both sections,
\* timeout={15000} around RemoteApp, the default around RemoteAppWithFallback
AppProps ==
  [c \in Sections |->
    [minLoadingTime |-> DefaultMinLoadingTime,
     timeout |-> IF c = "RemoteApp" THEN RemoteAppTimeout ELSE DefaultTimeout]]

\* the props a SmartSuspense is given: the defaults, or the host App's
PropChoices ==
  {[minLoadingTime |-> DefaultMinLoadingTime, timeout |-> DefaultTimeout],
   [minLoadingTime |-> DefaultMinLoadingTime, timeout |-> RemoteAppTimeout],
   [minLoadingTime |-> DefaultMinLoadingTime, timeout |-> DefaultMinLoadingTime],
   [minLoadingTime |-> DefaultMinLoadingTime, timeout |-> ShortTimeout]}

\* minLoadingTime prop
MinLoadingTimeOf(c) ==
  props[c].minLoadingTime

\* timeout prop
TimeoutOf(c) ==
  props[c].timeout

NotRendered ==
  [mounted |-> FALSE, showFallback |-> FALSE, showTimeout |-> FALSE,
   minTimer |-> NoTimer, timeoutTimer |-> NoTimer, cleanupDue |-> FALSE]

\* first render (both useState(false)) and the effect that sets the two timers
SmartSuspenseMount(c, t) ==
  [mounted |-> TRUE, showFallback |-> FALSE, showTimeout |-> FALSE,
   minTimer |-> t + MinLoadingTimeOf(c), timeoutTimer |-> t + TimeoutOf(c),
   cleanupDue |-> FALSE]

\* mutant of EffectCleanup: the timeout timer is not cleared
EffectCleanup_KeepsTimeoutTimer(r) ==
  [r EXCEPT !.minTimer = NoTimer]

\* the effect's cleanup: clearTimeout(minTimer); clearTimeout(timeoutTimer)
EffectCleanup(r) ==
  [r EXCEPT !.minTimer = NoTimer, !.timeoutTimer = NoTimer]

\* React's commit removes the SmartSuspense from the tree; the cleanup of its
\* effect is left to the flush of passive effects that follows the commit
SmartSuspenseUnmount(r) ==
  [r EXCEPT !.mounted = FALSE, !.cleanupDue = TRUE]

\* the effect runs at time t with the props p: both timers are set, the two
\* useState values are left as they are
SmartSuspenseEffect(r, p, t) ==
  [r EXCEPT !.minTimer = t + p.minLoadingTime, !.timeoutTimer = t + p.timeout]

\* the flush of passive effects after a commit that removed the SmartSuspense
\* or changed minLoadingTime or timeout: the cleanup of the previous run of
\* the effect, then, if the component is still in the tree, the effect again
SmartSuspenseFlush(r, p, t) ==
  [(IF r.mounted THEN SmartSuspenseEffect(EffectCleanup(r), p, t)
                 ELSE EffectCleanup(r))
     EXCEPT !.cleanupDue = FALSE]

\* the setTimeout callbacks of r that are still pending
TimersOf(r) ==
  (IF r.minTimer # NoTimer
     THEN {[kind |-> "minLoadingTime", due |-> r.minTimer]} ELSE {})
    \cup (IF r.timeoutTimer # NoTimer
            THEN {[kind |-> "timeout", due |-> r.timeoutTimer]} ELSE {})

\* no run of the effect yet
NoEffect ==
  [runs |-> 0, orphans |-> {}]

\* setShowFallback(true) or setShowTimeout(true) on the instance r whose
\* value is old: React ignores a state update of a component it has removed
SetState(r, old) ==
  IF r.mounted THEN TRUE ELSE old

\* React runs the passive effects that are still due before it renders
\* again: every SmartSuspense of s whose cleanup is due is flushed
FlushPendingPassiveEffects(s) ==
  [c \in Sections |->
    IF s[c].cleanupDue THEN SmartSuspenseFlush(s[c], props[c], now) ELSE s[c]]

\* the flush of passive effects of the SmartSuspense c
FlushPassiveEffects(c) ==
  /\ ss[c].cleanupDue
  /\ ss' = [ss EXCEPT ![c] = SmartSuspenseFlush(@, props[c], now)]
  /\ UNCHANGED <<loaderVars, now, cacheVars, isOnline, mounted, state>>

\* setTimeout(() => setShowFallback(true), minLoadingTime) runs
MinTimerFires(c) ==
  /\ ss[c].minTimer # NoTimer
  /\ IsNextTimer(ss[c].minTimer)
  /\ now' = ss[c].minTimer
  /\ ss' = [ss EXCEPT ![c].showFallback = SetState(ss[c], @), ![c].minTimer = NoTimer]
  /\ UNCHANGED <<loaderVars, cacheVars, isOnline, mounted, state>>

\* mutant of TimeoutTimerFires: the timeout callback also abandons the load
TimeoutTimerFires_CancelsLoad(c) ==
  /\ ss[c].timeoutTimer # NoTimer
  /\ ss[c].minTimer # ss[c].timeoutTimer
  /\ IsNextTimer(ss[c].timeoutTimer)
  /\ now' = ss[c].timeoutTimer
  /\ ss' = [ss EXCEPT ![c].showTimeout = SetState(ss[c], @), ![c].timeoutTimer = NoTimer]
  /\ inv' = [i \in Invocations |->
               IF Running(i) THEN [inv[i] EXCEPT !.pc = "rejected", !.wakeAt = NoTimer]
               ELSE inv[i]]
  /\ UNCHANGED <<maxRetries, baseDelay, retryCount, cacheVars, isOnline, mounted, state>>

\* setTimeout(() => setShowTimeout(true), timeout) runs; the effect sets the
\* minLoadingTime timer first, so with equal delays that one runs first
TimeoutTimerFires(c) ==
  /\ ss[c].timeoutTimer # NoTimer
  /\ ss[c].minTimer # ss[c].timeoutTimer
  /\ IsNextTimer(ss[c].timeoutTimer)
  /\ now' = ss[c].timeoutTimer
  /\ ss' = [ss EXCEPT ![c].showTimeout = SetState(ss[c], @), ![c].timeoutTimer = NoTimer]
  /\ UNCHANGED <<loaderVars, cacheVars, isOnline, mounted, state>>

\* mutant of loadingFallback: showFallback is looked at before showTimeout
loadingFallback_FallbackFirst(c) ==
  IF ss[c].showFallback THEN "fallback"
  ELSE IF ss[c].showTimeout THEN "timeout"
  ELSE "null"

\* the fallback handed to <Suspense>
loadingFallback(c) ==
  IF ss[c].showTimeout THEN "timeout"
  ELSE IF ss[c].showFallback THEN "fallback"
  ELSE "null"

(* ------------------------- RemoteErrorBoundary ------------------------- *)

\* constructor: this.state = { hasError: false, retryCount: 0 }
InitialBoundaryState ==
  [hasError |-> FALSE, error |-> NoValue, retryCount |-> 0]

\* mutant of getDerivedStateFromError: the error is not recorded
getDerivedStateFromError_Ignores(st, error) ==
  st

\* static getDerivedStateFromError(error), merged into the state st
getDerivedStateFromError(st, error) ==
  [st EXCEPT !.hasError = TRUE, !.error = error]

\* mutant of handleRetry: the retry is counted but the error state is kept
handleRetry_KeepsError(st) ==
  IF st.retryCount < BoundaryMaxRetries
    THEN [st EXCEPT !.retryCount = @ + 1]
    ELSE st

\* handleRetry's setState on the state st
handleRetry(st) ==
  IF st.retryCount < BoundaryMaxRetries
    THEN [hasError |-> FALSE, error |-> NoValue, retryCount |-> st.retryCount + 1]
    ELSE st

\* mutant of canRetry: a retry is always offered
canRetry_Always ==
  TRUE

\* render(): canRetry
canRetry ==
  state.retryCount < BoundaryMaxRetries

(* ------------------------------ host App ------------------------------- *)

\* the import() promise of lazy RemoteAppWithFallback (NoPromise before it renders)
FallbackImport ==
  IF \E p \in DOMAIN imports : imports[p].fn = "RemoteAppWithFallback"
    THEN CHOOSE p \in DOMAIN imports : imports[p].fn = "RemoteAppWithFallback"
    ELSE NoPromise

\* React.lazy's status of the section's component
LazyStatus(c) ==
  IF c = "RemoteApp"
    THEN CASE inv[1].pc = "idle" -> "uninitialized"
           [] inv[1].pc = "resolved" -> "resolved"
           [] inv[1].pc = "rejected" -> "rejected"
           [] OTHER -> "pending"
    ELSE IF FallbackImport = NoPromise THEN "uninitialized"
         ELSE IF imports[FallbackImport].status = "pending" THEN "pending"
         ELSE "resolved"

\* App's first render has happened: it rendered lazy RemoteApp, whose loader
\* was invoked
AppRendered ==
  inv[1].pc # "idle"

\* what the section shows on screen
Displayed(c) ==
  IF ~AppRendered THEN "nothing"
  ELSE IF c = "RemoteApp" /\ state.hasError THEN "errorFallback"
  ELSE IF LazyStatus(c) = "resolved"
    THEN IF c = "RemoteAppWithFallback" /\ imports[FallbackImport].status = "rejected"
           THEN "inlineFallback"
           ELSE "child"
  ELSE loadingFallback(c)

\* the effect of App: if (isOnline) preloadRemoteModule('RemoteApp', ...)
PreloadEffect(cs, online) ==
  IF online THEN Preload(cs, "RemoteApp", "importRemoteApp") ELSE cs

\* first render of App and its commit: both lazy components start loading
\* and suspend; the effects have not run yet
AppRender ==
  /\ ~AppRendered
  /\ \E n \in SucceedAtChoices(maxRetries) : Invoke(1, n)
  /\ imports' = NewImport(imports, "RemoteAppWithFallback")
  /\ UNCHANGED <<remoteModuleCache, preloadLog, uiVars>>

\* the effects of the first render run, in a task after the commit: the
\* effect of each SmartSuspense sets its two timers, App's effect preloads
AppMount ==
  /\ AppRendered
  /\ ~mounted
  /\ mounted' = TRUE
  /\ ss' = [c \in Sections |-> SmartSuspenseMount(c, now)]
  /\ LET cs == PreloadEffect(CacheState, isOnline)
     IN  /\ remoteModuleCache' = cs.cache
         /\ imports' = cs.imports
         /\ preloadLog' = cs.log
  /\ UNCHANGED <<loaderVars, now, isOnline, state>>

\* useNetworkStatus (hooks/useNetworkStatus.ts, described as 'Online/offline
\* detection') reports the other value of isOnline: App renders again, before
\* which React runs the passive effects still due, and App's effect, whose
\* dependency isOnline changed, runs again
NetworkChange ==
  /\ mounted
  /\ isOnline \/ Len(preloadLog) < MaxPreloadCalls
  /\ isOnline' = ~isOnline
  /\ ss' = FlushPendingPassiveEffects(ss)
  /\ LET cs == PreloadEffect(CacheState, ~isOnline)
     IN  /\ remoteModuleCache' = cs.cache
         /\ imports' = cs.imports
         /\ preloadLog' = cs.log
  /\ UNCHANGED <<loaderVars, now, mounted, state>>

\* the import of lazy RemoteApp fulfils: React renders the remote component
RemoteAppImportResolves(v) ==
  /\ ImportResolves(1, v)
  /\ UNCHANGED <<cacheVars, uiVars>>

\* the import of lazy RemoteApp rejects: loadWithRetry's catch block, which
\* sets the backoff timer or throws, rejecting the promise React.lazy holds
RemoteAppImportRejects ==
  /\ ImportRejects(1)
  /\ UNCHANGED <<cacheVars, uiVars>>

\* React renders again after lazy RemoteApp's promise rejected, in a later
\* task: rendering RemoteApp throws the error, the boundary catches it and
\* its children (the SmartSuspense) are removed; the cleanup of the
\* SmartSuspense's effect is due
RemoteAppRenderThrows ==
  /\ LazyStatus("RemoteApp") = "rejected"
  /\ ~state.hasError
  /\ ss' = [ss EXCEPT !["RemoteApp"] = SmartSuspenseUnmount(@)]
  /\ state' = getDerivedStateFromError(state, inv[1].error)
  /\ UNCHANGED <<loaderVars, now, cacheVars, isOnline, mounted>>

\* the backoff timer of lazy RemoteApp's load runs; the effects of the first
\* render, which React runs right after the commit, have run before it
RemoteAppBackoffElapsed ==
  /\ mounted
  /\ BackoffElapsed(1)
  /\ UNCHANGED <<cacheVars, uiVars>>

\* the promise of an import() made outside the retry loader settles
AppPromiseResolves(p) ==
  /\ PromiseResolves(p)
  /\ UNCHANGED <<loaderVars, now, uiVars>>

AppPromiseRejects(p) ==
  /\ PromiseRejects(p)
  /\ UNCHANGED <<loaderVars, now, uiVars>>

\* a click on 'Retry Loading': React first runs the passive effects still
\* due (the cleanup of the SmartSuspense the error render removed), then
\* handleRetry, then the children render again; lazy RemoteApp is still
\* rejected, so rendering it throws the same error and nothing of the
\* children is committed
RetryClick ==
  /\ state.hasError
  /\ canRetry
  /\ ss' = FlushPendingPassiveEffects(ss)
  /\ state' = IF LazyStatus("RemoteApp") = "rejected"
                THEN getDerivedStateFromError(handleRetry(state), inv[1].error)
                ELSE handleRetry(state)
  /\ UNCHANGED <<loaderVars, now, cacheVars, isOnline, mounted>>

(* ----------------------- SmartSuspense taken alone --------------------- *)

\* the child of a SmartSuspense before it has ever suspended. `seen` holds
\* the fallbacks <Suspense> displayed during the last suspension, `n` counts
\* the suspensions so far.
NoSuspension ==
  [suspended |-> FALSE, since |-> NoTimer, until |-> NoTimer, endedAt |-> NoTimer,
   seen |-> {}, n |-> 0]

\* <Suspense fallback={loadingFallback}>: while the child r is suspended the
\* fallback `shown` is on screen
Observe(r, shown) ==
  IF r.suspended THEN [r EXCEPT !.seen = @ \cup {shown}] ELSE r

\* a SmartSuspense, the one instance that is followed, is rendered for the
\* first time
SuspenseMount(c) ==
  /\ \A d \in Sections : ss[d] = NotRendered /\ effect[d].runs = 0
  /\ ss' = [ss EXCEPT ![c] = SmartSuspenseMount(c, now)]
  /\ effect' = [effect EXCEPT ![c].runs = 1]
  /\ UNCHANGED <<loaderVars, now, cacheVars, isOnline, mounted, state, props, child,
                 boundary, demoVars>>

\* the child throws a promise that settles d ms later: <Suspense> displays
\* loadingFallback
ChildSuspends(c, d) ==
  /\ ss[c].mounted
  /\ ~child[c].suspended
  /\ child[c].n < MaxSuspensions
  /\ child' = [child EXCEPT ![c] =
                 [suspended |-> TRUE, since |-> now, until |-> now + d,
                  endedAt |-> NoTimer, seen |-> {loadingFallback(c)}, n |-> @.n + 1]]
  /\ UNCHANGED <<loaderVars, now, cacheVars, uiVars, props, boundary, effect, demoVars>>

\* the promise the child threw settles: <Suspense> displays the child again
ChildResumes(c) ==
  /\ child[c].suspended
  /\ IsNextTimer(child[c].until)
  /\ now' = child[c].until
  /\ child' = [child EXCEPT ![c].suspended = FALSE, ![c].until = NoTimer,
                            ![c].endedAt = child[c].until]
  /\ UNCHANGED <<loaderVars, cacheVars, uiVars, props, boundary, effect, demoVars>>

\* the minLoadingTime timer runs; a suspended child's fallback is re-rendered
SuspenseMinTimerFires(c) ==
  /\ MinTimerFires(c)
  /\ child' = [child EXCEPT ![c] = Observe(@, loadingFallback(c)')]
  /\ UNCHANGED <<props, boundary, effect, demoVars>>

\* the timeout timer runs; a suspended child's fallback is re-rendered
SuspenseTimeoutTimerFires(c) ==
  /\ TimeoutTimerFires(c)
  /\ child' = [child EXCEPT ![c] = Observe(@, loadingFallback(c)')]
  /\ UNCHANGED <<props, boundary, effect, demoVars>>

\* the SmartSuspense is removed from the tree: its child, suspended or not,
\* is gone; the effect's cleanup is due. React flushes the passive effects of
\* the commit before, if any are pending, before it commits again.
SuspenseUnmount(c) ==
  /\ ss[c].mounted
  /\ ~ss[c].cleanupDue
  /\ ss' = [ss EXCEPT ![c] = SmartSuspenseUnmount(@)]
  /\ child' = [child EXCEPT ![c].suspended = FALSE, ![c].until = NoTimer]
  /\ UNCHANGED <<loaderVars, now, cacheVars, isOnline, mounted, state, props,
                 boundary, effect, demoVars>>

\* the parent re-renders the SmartSuspense with other minLoadingTime or
\* timeout props: the deps of the effect changed, its cleanup and its next
\* run are due in the flush of passive effects
SuspensePropsChange(c, p) ==
  /\ ss[c].mounted
  /\ ~ss[c].cleanupDue
  /\ p # props[c]
  /\ effect[c].runs <= MaxPropChanges
  /\ props' = [props EXCEPT ![c] = p]
  /\ ss' = [ss EXCEPT ![c].cleanupDue = TRUE]
  /\ UNCHANGED <<loaderVars, now, cacheVars, isOnline, mounted, state, child,
                 boundary, effect, demoVars>>

\* the flush of passive effects of a SmartSuspense taken alone: a timer the
\* cleanup leaves pending is lost to the next run of the effect
SuspenseFlushEffects(c) ==
  /\ FlushPassiveEffects(c)
  /\ effect' = [effect EXCEPT
                  ![c].runs = IF ss[c].mounted THEN @ + 1 ELSE @,
                  ![c].orphans = IF ss[c].mounted
                                   THEN @ \cup TimersOf(EffectCleanup(ss[c]))
                                   ELSE @]
  /\ UNCHANGED <<props, child, boundary, demoVars>>

(* -------------------- RemoteErrorBoundary taken alone ------------------ *)

\* the values of the optional `fallback` prop (fallback?: ReactNode): not
\* given, given but falsy (null; 0, '' and false behave alike), or an element
FallbackProps ==
  {"undefined", "null", "element"}

\* the truthiness `this.props.fallback || ...` tests
Truthy(fallbackProp) ==
  fallbackProp = "element"

\* a boundary before its first render: the value of its `fallback` prop, no
\* render of the children and no click on 'Retry Loading' yet
NewBoundary(fallbackProp) ==
  [fallbackProp |-> fallbackProp, renders |-> 0, clicks |-> 0]

\* render(): what the boundary returns
BoundaryRender ==
  IF state.hasError
    THEN IF Truthy(boundary.fallbackProp)
           THEN [kind |-> "props.fallback", attempt |-> 0, of |-> 0,
                 retryButton |-> FALSE, unavailable |-> FALSE]
           ELSE [kind |-> "errorUI", attempt |-> state.retryCount + 1,
                 of |-> BoundaryMaxRetries + 1,
                 retryButton |-> canRetry, unavailable |-> ~canRetry]
    ELSE [kind |-> "children", attempt |-> 0, of |-> 0,
          retryButton |-> FALSE, unavailable |-> FALSE]

\* mutant of AfterChildrenRender: a render without error resets the retries
AfterChildrenRender_ResetsOnSuccess(st, e) ==
  IF e = NoValue THEN [st EXCEPT !.retryCount = 0] ELSE getDerivedStateFromError(st, e)

\* the state after the children of a boundary in state st rendered: e is the
\* error they threw, NoValue if they threw none
AfterChildrenRender(st, e) ==
  IF e = NoValue THEN st ELSE getDerivedStateFromError(st, e)

\* the boundary renders its children (first render, or a later update)
ChildrenRender(e) ==
  /\ ~state.hasError
  /\ boundary.renders < MaxChildRenders
  /\ boundary' = [boundary EXCEPT !.renders = @ + 1]
  /\ state' = AfterChildrenRender(state, e)
  /\ UNCHANGED <<loaderVars, now, cacheVars, isOnline, mounted, ss, props, child,
                 effect, demoVars>>

\* onClick={this.handleRetry} of the 'Retry Loading' button, and the render
\* that follows the setState
BoundaryRetryClick(e) ==
  /\ BoundaryRender.retryButton
  /\ boundary.renders < MaxChildRenders
  /\ LET st == handleRetry(state)
     IN  IF st.hasError
           THEN /\ state' = st
                /\ boundary' = [boundary EXCEPT !.clicks = @ + 1]
           ELSE /\ state' = AfterChildrenRender(st, e)
                /\ boundary' = [boundary EXCEPT !.clicks = @ + 1, !.renders = @ + 1]
  /\ UNCHANGED <<loaderVars, now, cacheVars, isOnline, mounted, ss, props, child,
                 effect, demoVars>>

(* --------------------- RemoteWrapper.tsx (React 18) -------------------- *)

\* the module-level state of RemoteWrapper.tsx, the roots createRoot() made
\* and the calls received
WrapperState ==
  [root |-> root, roots |-> roots, log |-> wrapperLog]

\* mutant of mount: createRoot(element) on every call
mount_AlwaysCreatesRoot(w, element) ==
  LET rs == Append(w.roots, [container |-> element, rendered |-> FALSE,
                             unmounts |-> 0])
  IN  [root |-> Len(rs),
       roots |-> [rs EXCEPT ![Len(rs)].rendered = TRUE],
       log |-> Append(w.log, [op |-> "mount", element |-> element])]

\* mount(element): if (!root) root = createRoot(element); root.render(<App />)
mount(w, element) ==
  LET rs == IF w.root = NoRoot
              THEN Append(w.roots, [container |-> element, rendered |-> FALSE,
                                    unmounts |-> 0])
              ELSE w.roots
      r == IF w.root = NoRoot THEN Len(rs) ELSE w.root
  IN  [root |-> r,
       roots |-> [rs EXCEPT ![r].rendered = TRUE],
       log |-> Append(w.log, [op |-> "mount", element |-> element])]

\* mutant of unmount: root.unmount() without `root = null`
unmount_KeepsRoot(w) ==
  IF w.root # NoRoot
    THEN [root |-> w.root,
          roots |-> [w.roots EXCEPT ![w.root].rendered = FALSE,
                                    ![w.root].unmounts = @ + 1],
          log |-> Append(w.log, [op |-> "unmount", element |-> NoElement])]
    ELSE [w EXCEPT !.log = Append(@, [op |-> "unmount", element |-> NoElement])]

\* unmount(): if (root) { root.unmount(); root = null }
unmount(w) ==
  IF w.root # NoRoot
    THEN [root |-> NoRoot,
          roots |-> [w.roots EXCEPT ![w.root].rendered = FALSE,
                                    ![w.root].unmounts = @ + 1],
          log |-> Append(w.log, [op |-> "unmount", element |-> NoElement])]
    ELSE [w EXCEPT !.log = Append(@, [op |-> "unmount", element |-> NoElement])]

\* the wrapper's state becomes w
WrapperBecomes(w) ==
  /\ root' = w.root
  /\ roots' = w.roots
  /\ wrapperLog' = w.log

\* the remote App is rendered inside element e
RenderedIn(e) ==
  \E r \in DOMAIN roots : roots[r].container = e /\ roots[r].rendered

\* a caller calls mount(element)
CallMount(element) ==
  /\ Len(wrapperLog) < MaxWrapperCalls
  /\ WrapperBecomes(mount(WrapperState, element))
  /\ UNCHANGED <<loaderVars, now, cacheVars, uiVars, unitVars, host, hostImports>>

\* a caller calls unmount()
CallUnmount ==
  /\ Len(wrapperLog) < MaxWrapperCalls
  /\ WrapperBecomes(unmount(WrapperState))
  /\ UNCHANGED <<loaderVars, now, cacheVars, uiVars, unitVars, host, hostImports>>

(* ------------------------ host App (React 19) -------------------------- *)

\* the host App before it is rendered; `instance` numbers its mounts, and the
\* container <div ref={remoteRef}> of mount k is element k
HostNotRendered ==
  [mounted |-> FALSE, instance |-> 0]

\* mutant of remoteRefCurrent: the ref keeps the <div> after it left the tree
remoteRefCurrent_NeverDetached(h, k) ==
  IF h.instance = k THEN k ELSE NoElement

\* remoteRef.current of mount k when the host is in state h: React attaches
\* the ref while the <div> is in the tree and sets it to null when it leaves
remoteRefCurrent(h, k) ==
  IF h.mounted /\ h.instance = k THEN k ELSE NoElement

\* import('remote/App') by the effect (side "mount") or by its cleanup (side
\* "cleanup") of mount k: a new pending promise
HostImport(imps, side, k) ==
  Append(imps, [side |-> side, instance |-> k, status |-> "pending",
                default |-> FALSE])

\* the effect's cleanup, run with remoteRef.current = ref:
\* if (remoteRef.current) import('remote/App').then(m => m.default.unmount())
Cleanup(imps, k, ref) ==
  IF ref # NoElement THEN HostImport(imps, "cleanup", k) ELSE imps

\* the host App is rendered and its effect runs: loadRemoteApp()
HostMount ==
  /\ ~host.mounted
  /\ host.instance < MaxHostMounts
  /\ host' = [mounted |-> TRUE, instance |-> host.instance + 1]
  /\ hostImports' = HostImport(hostImports, "mount", host.instance + 1)
  /\ UNCHANGED <<loaderVars, now, cacheVars, uiVars, unitVars, root, roots, wrapperLog>>

\* the host App is removed from the tree: React detaches remoteRef with the
\* <div>, then runs the effect's cleanup
HostUnmount ==
  /\ host.mounted
  /\ LET h == [host EXCEPT !.mounted = FALSE]
     IN  /\ host' = h
         /\ hostImports' = Cleanup(hostImports, h.instance,
                                   remoteRefCurrent(h, h.instance))
  /\ UNCHANGED <<loaderVars, now, cacheVars, uiVars, unitVars, root, roots, wrapperLog>>

\* an import('remote/App') of the host fulfils with the remote module, which
\* has a default export (the wrapper) or not: loadRemoteApp goes on after its
\* await, or the cleanup's then() runs
HostImportResolves(p, default) ==
  /\ hostImports[p].status = "pending"
  /\ hostImports' = [hostImports EXCEPT ![p].status = "resolved",
                                        ![p].default = default]
  /\ LET ref == remoteRefCurrent(host, hostImports[p].instance)
     IN  IF hostImports[p].side = "mount"
           THEN IF ref # NoElement /\ default
                  THEN WrapperBecomes(mount(WrapperState, ref))
                  ELSE UNCHANGED <<root, roots, wrapperLog>>
           ELSE IF default
                  THEN WrapperBecomes(unmount(WrapperState))
                  ELSE UNCHANGED <<root, roots, wrapperLog>>
  /\ UNCHANGED <<loaderVars, now, cacheVars, uiVars, unitVars, host>>

\* an import('remote/App') of the host rejects: loadRemoteApp's catch block
\* logs 'Failed to load remote app:' with console.error
HostImportRejects(p) ==
  /\ hostImports[p].status = "pending"
  /\ hostImports' = [hostImports EXCEPT ![p].status = "rejected"]
  /\ UNCHANGED <<loaderVars, now, cacheVars, uiVars, unitVars, host, root, roots,
                 wrapperLog>>

\* what the host shows where the remote belongs: its JSX holds nothing but
\* the container <div ref={remoteRef}>
HostShows ==
  IF ~host.mounted THEN "nothing"
  ELSE IF RenderedIn(host.instance) THEN "remote"
  ELSE "emptyContainer"

(* --------------------------- specifications ---------------------------- *)

\* no SmartSuspense or RemoteErrorBoundary is exercised on its own: the props
\* are the host App's, which passes no fallback prop to the boundary
UnitsNotStarted ==
  /\ props = AppProps
  /\ child = [c \in Sections |-> NoSuspension]
  /\ boundary = NewBoundary("undefined")
  /\ effect = [c \in Sections |-> NoEffect]

\* the React 19 host / React 18 remote demo at page load
DemoNotStarted ==
  /\ root = NoRoot
  /\ roots = <<>>
  /\ wrapperLog = <<>>
  /\ host = HostNotRendered
  /\ hostImports = <<>>


\* the loader as a unit: any caller, any factory
LoaderInit ==
  /\ \E mr \in RetryChoices, bd \in BaseDelayChoices : createRemoteLoader(mr, bd)
  /\ now = 0
  /\ EmptyCache
  /\ isOnline = TRUE
  /\ mounted = FALSE
  /\ ss = [c \in Sections |-> NotRendered]
  /\ state = InitialBoundaryState
  /\ UnitsNotStarted
  /\ DemoNotStarted

LoaderNext ==
  \/ \E i \in Invocations, n \in SucceedAtChoices(maxRetries) :
       Invoke(i, n) /\ UNCHANGED <<cacheVars, uiVars, unitVars, demoVars>>
  \/ \E i \in Invocations, v \in Values :
       ImportResolves(i, v) /\ UNCHANGED <<cacheVars, uiVars, unitVars, demoVars>>
  \/ \E i \in Invocations :
       ImportRejects(i) /\ UNCHANGED <<cacheVars, uiVars, unitVars, demoVars>>
  \/ \E i \in Invocations :
       BackoffElapsed(i) /\ UNCHANGED <<cacheVars, uiVars, unitVars, demoVars>>

LoaderSpec ==
  LoaderInit /\ [][LoaderNext]_vars

\* the steps of running invocations: a factory call settles, a backoff timer runs
LoaderStep ==
  /\ \/ \E i \in Invocations, v \in Values : ImportResolves(i, v)
     \/ \E i \in Invocations : ImportRejects(i)
     \/ \E i \in Invocations : BackoffElapsed(i)
  /\ UNCHANGED <<cacheVars, uiVars, unitVars, demoVars>>

\* the loader where every factory call settles and every due timer runs
LoaderFairSpec ==
  LoaderSpec /\ WF_vars(LoaderStep)

\* the preloader as a unit: any caller, any module name and import function
PreloaderInit ==
  /\ createRemoteLoader(DefaultMaxRetries, DefaultBaseDelay)
  /\ now = 0
  /\ EmptyCache
  /\ isOnline = TRUE
  /\ mounted = FALSE
  /\ ss = [c \in Sections |-> NotRendered]
  /\ state = InitialBoundaryState
  /\ UnitsNotStarted
  /\ DemoNotStarted

PreloaderNext ==
  \/ \E m \in ModuleNames, f \in ImportFns :
       preloadRemoteModule(m, f) /\ UNCHANGED <<loaderVars, now, uiVars, unitVars, demoVars>>
  \/ \E p \in DOMAIN imports :
       PromiseResolves(p) /\ UNCHANGED <<loaderVars, now, uiVars, unitVars, demoVars>>
  \/ \E p \in DOMAIN imports :
       PromiseRejects(p) /\ UNCHANGED <<loaderVars, now, uiVars, unitVars, demoVars>>

PreloaderSpec ==
  PreloaderInit /\ [][PreloaderNext]_vars

\* the host App of 2.7-react-lazy-suspense
AppInit ==
  /\ createRemoteLoader(DefaultMaxRetries, DefaultBaseDelay)
  /\ now = 0
  /\ EmptyCache
  /\ isOnline \in BOOLEAN
  /\ mounted = FALSE
  /\ ss = [c \in Sections |-> NotRendered]
  /\ state = InitialBoundaryState
  /\ UnitsNotStarted
  /\ DemoNotStarted

\* the steps of the host App's load of lazy RemoteApp and of its timers,
\* which the browser always takes once they are due
AppLoadStep ==
  /\ \/ \E v \in Values : RemoteAppImportResolves(v)
     \/ RemoteAppImportRejects
     \/ RemoteAppRenderThrows
     \/ \E c \in Sections : FlushPassiveEffects(c)
     \/ RemoteAppBackoffElapsed
     \/ \E c \in Sections : MinTimerFires(c)
     \/ \E c \in Sections : TimeoutTimerFires(c)
  /\ UNCHANGED <<unitVars, demoVars>>

AppNext ==
  \/ AppRender /\ UNCHANGED <<unitVars, demoVars>>
  \/ AppMount /\ UNCHANGED <<unitVars, demoVars>>
  \/ NetworkChange /\ UNCHANGED <<unitVars, demoVars>>
  \/ \E v \in Values : RemoteAppImportResolves(v) /\ UNCHANGED <<unitVars, demoVars>>
  \/ RemoteAppImportRejects /\ UNCHANGED <<unitVars, demoVars>>
  \/ RemoteAppRenderThrows /\ UNCHANGED <<unitVars, demoVars>>
  \/ \E c \in Sections : FlushPassiveEffects(c) /\ UNCHANGED <<unitVars, demoVars>>
  \/ RemoteAppBackoffElapsed /\ UNCHANGED <<unitVars, demoVars>>
  \/ \E p \in DOMAIN imports : AppPromiseResolves(p) /\ UNCHANGED <<unitVars, demoVars>>
  \/ \E p \in DOMAIN imports : AppPromiseRejects(p) /\ UNCHANGED <<unitVars, demoVars>>
  \/ \E c \in Sections : MinTimerFires(c) /\ UNCHANGED <<unitVars, demoVars>>
  \/ \E c \in Sections : TimeoutTimerFires(c) /\ UNCHANGED <<unitVars, demoVars>>
  \/ RetryClick /\ UNCHANGED <<unitVars, demoVars>>

AppSpec ==
  AppInit /\ [][AppNext]_vars

\* the host App in a browser: a due timer callback runs, and every import()
\* of the retry loader settles
AppFairSpec ==
  AppSpec /\ WF_vars(AppLoadStep)

\* a SmartSuspense taken alone: any props, a child that suspends at any time
SuspenseInit ==
  /\ createRemoteLoader(DefaultMaxRetries, DefaultBaseDelay)
  /\ now = 0
  /\ EmptyCache
  /\ isOnline = TRUE
  /\ mounted = FALSE
  /\ ss = [c \in Sections |-> NotRendered]
  /\ state = InitialBoundaryState
  /\ props \in {[c \in Sections |-> p] : p \in PropChoices}
  /\ child = [c \in Sections |-> NoSuspension]
  /\ boundary = NewBoundary("undefined")
  /\ effect = [c \in Sections |-> NoEffect]
  /\ DemoNotStarted

SuspenseNext ==
  \/ \E c \in Sections : SuspenseMount(c)
  \/ \E c \in Sections, d \in LoadDurations : ChildSuspends(c, d)
  \/ \E c \in Sections : ChildResumes(c)
  \/ \E c \in Sections : SuspenseMinTimerFires(c)
  \/ \E c \in Sections : SuspenseTimeoutTimerFires(c)
  \/ \E c \in Sections : SuspenseUnmount(c)
  \/ \E c \in Sections : SuspenseFlushEffects(c)

SuspenseSpec ==
  SuspenseInit /\ [][SuspenseNext]_vars

\* a SmartSuspense taken alone whose parent changes its props: it starts with
\* the default props. The effect and its timers do not depend on the child,
\* which stays rendered here.
SuspensePropsInit ==
  /\ createRemoteLoader(DefaultMaxRetries, DefaultBaseDelay)
  /\ now = 0
  /\ EmptyCache
  /\ isOnline = TRUE
  /\ mounted = FALSE
  /\ ss = [c \in Sections |-> NotRendered]
  /\ state = InitialBoundaryState
  /\ props = [c \in Sections |->
               [minLoadingTime |-> DefaultMinLoadingTime, timeout |-> DefaultTimeout]]
  /\ child = [c \in Sections |-> NoSuspension]
  /\ boundary = NewBoundary("undefined")
  /\ effect = [c \in Sections |-> NoEffect]
  /\ DemoNotStarted

SuspensePropsNext ==
  \/ \E c \in Sections : SuspenseMount(c)
  \/ \E c \in Sections : SuspenseMinTimerFires(c)
  \/ \E c \in Sections : SuspenseTimeoutTimerFires(c)
  \/ \E c \in Sections : SuspenseUnmount(c)
  \/ \E c \in Sections, p \in PropChoices : SuspensePropsChange(c, p)
  \/ \E c \in Sections : SuspenseFlushEffects(c)

SuspensePropsSpec ==
  SuspensePropsInit /\ [][SuspensePropsNext]_vars

\* a RemoteErrorBoundary taken alone: with or without a fallback prop,
\* children that may throw on any render
BoundaryInit ==
  /\ createRemoteLoader(DefaultMaxRetries, DefaultBaseDelay)
  /\ now = 0
  /\ EmptyCache
  /\ isOnline = TRUE
  /\ mounted = FALSE
  /\ ss = [c \in Sections |-> NotRendered]
  /\ state = InitialBoundaryState
  /\ props = AppProps
  /\ child = [c \in Sections |-> NoSuspension]
  /\ \E fb \in FallbackProps : boundary = NewBoundary(fb)
  /\ effect = [c \in Sections |-> NoEffect]
  /\ DemoNotStarted

BoundaryNext ==
  \/ \E e \in RenderErrors \cup {NoValue} : ChildrenRender(e)
  \/ \E e \in RenderErrors \cup {NoValue} : BoundaryRetryClick(e)

BoundarySpec ==
  BoundaryInit /\ [][BoundaryNext]_vars

\* the remote wrapper taken alone: any caller
WrapperInit ==
  /\ createRemoteLoader(DefaultMaxRetries, DefaultBaseDelay)
  /\ now = 0
  /\ EmptyCache
  /\ isOnline = TRUE
  /\ mounted = FALSE
  /\ ss = [c \in Sections |-> NotRendered]
  /\ state = InitialBoundaryState
  /\ UnitsNotStarted
  /\ DemoNotStarted

WrapperNext ==
  \/ \E e \in Elements : CallMount(e)
  \/ CallUnmount

WrapperSpec ==
  WrapperInit /\ [][WrapperNext]_vars

\* the React 19 host App with the React 18 remote's wrapper
HostInit ==
  WrapperInit

HostNext ==
  \/ HostMount
  \/ HostUnmount
  \/ \E p \in DOMAIN hostImports, default \in BOOLEAN : HostImportResolves(p, default)
  \/ \E p \in DOMAIN hostImports : HostImportRejects(p)

HostSpec ==
  HostInit /\ [][HostNext]_vars

(* ------------------- properties of createRemoteLoader ------------------ *)

Settled(i) ==
  inv[i].pc \in {"resolved", "rejected"}

\* C1: with a factory that rejects on every call, an invocation of the loader
\* calls the factory exactly maxRetries + 1 times and then rejects.
C1_AlwaysRejectingCallsMaxRetriesPlusOne ==
  \A i \in Invocations :
    (Settled(i) /\ inv[i].succeedAt = NeverSucceeds) =>
      (inv[i].pc = "rejected" /\ inv[i].calls = maxRetries + 1)

\* C2: if the factory rejects N-1 times and resolves with v on call N, with
\* 1 <= N <= maxRetries + 1, the invocation resolves with v after exactly N calls.
C2_ResolvesOnNthAttempt ==
  \A i \in Invocations :
    (Settled(i) /\ inv[i].succeedAt \in 1..(maxRetries + 1)) =>
      /\ inv[i].pc = "resolved"
      /\ inv[i].result = inv[i].value
      /\ inv[i].calls = inv[i].succeedAt

\* C3: the wait between failed attempt k and attempt k+1 of an invocation is
\* baseDelay * 2^(k-1), and attempt k+1 does not start before it has elapsed.
C3_BackoffDelayIsExponentialInAttempt ==
  \A i \in Invocations :
    /\ \A k \in 1..Len(inv[i].delays) : inv[i].delays[k] = baseDelay * Pow2(k - 1)
    /\ (inv[i].pc = "awaiting" /\ inv[i].calls >= 2) =>
         inv[i].startedAt >= inv[i].failedAt + baseDelay * Pow2(inv[i].calls - 2)

\* C4: an invocation whose factory first succeeds on attempt N has waited
\* baseDelay * (2^(N-1) - 1) in total, made exactly N calls and resolves with
\* the factory's value.
C4_TotalBackoffOfSuccessfulInvocation ==
  \A i \in Invocations :
    inv[i].pc = "resolved" =>
      /\ SumSeq(inv[i].delays) = baseDelay * (Pow2(inv[i].succeedAt - 1) - 1)
      /\ inv[i].calls = inv[i].succeedAt
      /\ inv[i].result = inv[i].value

\* C5: on exhaustion the loader fails with a distinguishable RemoteLoadFailure
\* error that wraps the last underlying error and reports the number of
\* attempts (factory calls) that were made.
C5_ExhaustionRaisesRemoteLoadFailure ==
  \A i \in Invocations :
    inv[i].pc = "rejected" =>
      /\ inv[i].error.name = "RemoteLoadFailure"
      /\ inv[i].error.cause = inv[i].lastError
      /\ inv[i].error.attempts = inv[i].calls

\* C8: no shared mutable state between invocations: two settled invocations
\* with the same factory behaviour made the same number of attempts and
\* waited the same sequence of delays.
C8_InvocationsAreIndependent ==
  \A i, j \in Invocations :
    (Settled(i) /\ Settled(j) /\ inv[i].succeedAt = inv[j].succeedAt) =>
      (inv[i].calls = inv[j].calls /\ inv[i].delays = inv[j].delays)

(* ------------------------ properties of the cache ---------------------- *)

\* the calls of preloadRemoteModule made so far for module name m
CallsFor(m) ==
  {a \in DOMAIN preloadLog : preloadLog[a].moduleName = m}

\* C6: all calls of preloadRemoteModule with the same moduleName, also those
\* made while the first load is pending, invoke exactly one import function
\* and return the same promise.
C6_PreloadInvokesOneImportPerName ==
  /\ \A m \in ModuleNames :
       CallsFor(m) # {} =>
         /\ Cardinality({a \in CallsFor(m) : preloadLog[a].invoked}) = 1
         /\ Cardinality({preloadLog[a].returned : a \in CallsFor(m)}) = 1
         /\ \A a \in CallsFor(m) : preloadLog[a].returned \in DOMAIN imports
  /\ Len(imports) = Cardinality({m \in ModuleNames : CallsFor(m) # {}})

\* C6 witness: a second call for a module name, with another import function,
\* made while the promise of the first call is still pending
C6_Witness ==
  /\ Len(preloadLog) >= 2
  /\ preloadLog[1].moduleName = preloadLog[2].moduleName
  /\ preloadLog[1].importFn # preloadLog[2].importFn
  /\ imports[preloadLog[1].returned].status = "pending"

\* C9: every entry of the preloader cache is a pending or resolved promise;
\* the cache never holds, nor returns, a rejected one.
C9_CacheHoldsNoRejectedPromise ==
  /\ \A m \in ModuleNames :
       remoteModuleCache[m] # NoPromise =>
         imports[remoteModuleCache[m]].status \in {"pending", "resolved"}
  /\ \A a \in DOMAIN preloadLog :
       imports[preloadLog[a].returned].status \in {"pending", "resolved"}

(* ----------------------- properties of the host App -------------------- *)

RECURSIVE SumCalls(_)
\* the factory calls made by the invocations in S
SumCalls(S) ==
  IF S = {} THEN 0
  ELSE LET i == CHOOSE j \in S : TRUE IN inv[i].calls + SumCalls(S \ {i})

\* the import('remote/App') calls started so far: by the retry loader of lazy
\* RemoteApp, by lazy RemoteAppWithFallback and by the preload effect
ImportsStarted ==
  SumCalls(Invocations) + Len(imports)

NoImportFailed ==
  /\ \A i \in Invocations : inv[i].failedAt = NoTimer
  /\ \A p \in DOMAIN imports : imports[p].status # "rejected"

\* C7: in the host App the fetches of 'remote/App' are deduplicated through
\* the preloader cache: while none has failed, at most one import is started.
C7_AtMostOneImportWhileNoneFailed ==
  NoImportFailed => ImportsStarted <= 1

\* the import of the section's remote component has fulfilled
LoadResolved(c) ==
  IF c = "RemoteApp" THEN inv[1].pc = "resolved"
  ELSE FallbackImport # NoPromise /\ imports[FallbackImport].status = "resolved"

\* the load state of a section: the loader, its retry state and the promises
LoadState ==
  <<maxRetries, baseDelay, retryCount, inv, imports, remoteModuleCache>>

\* C10: the timeout timer of a SmartSuspense only switches the fallback to the
\* 'taking longer than expected' message: the step leaves the in-flight load,
\* its retry state and the boundary untouched, and once the load has resolved
\* the child is shown in place of the timeout message.
C10_TimeoutOnlyChangesFallback ==
  /\ [][\A c \in Sections :
          (~ss[c].showTimeout /\ ss'[c].showTimeout) =>
            /\ LoadState' = LoadState
            /\ state' = state
            /\ ss' = [ss EXCEPT ![c].showTimeout = TRUE, ![c].timeoutTimer = NoTimer]
            /\ loadingFallback(c)' = "timeout"]_vars
  /\ [](\A c \in Sections :
          (ss[c].showTimeout /\ LoadResolved(c)) => Displayed(c) = "child")

\* C10 witness: the timeout message of the RemoteApp section was shown, the
\* load went on (a retry after the timeout) and resolved later, and the child
\* is displayed
C10_Witness ==
  /\ ss["RemoteApp"].showTimeout
  /\ inv[1].pc = "resolved"
  /\ inv[1].settledAt > RemoteAppTimeout
  /\ inv[1].calls >= 2
  /\ Displayed("RemoteApp") = "child"

(* ------------------------ properties of SmartSuspense ------------------ *)

\* C11: while the child of a SmartSuspense is suspended, the 'taking longer
\* than expected' message is the displayed fallback once `timeout` ms have
\* passed since the load started, and it is not displayed before that.
C11_TimeoutMessageAfterTimeout ==
  \A c \in Sections :
    (ss[c].mounted /\ child[c].suspended) =>
      /\ (now - child[c].since >= TimeoutOf(c)) => loadingFallback(c) = "timeout"
      /\ loadingFallback(c) = "timeout" => (now - child[c].since >= TimeoutOf(c))

\* C12: no loading flash: a suspension of the child that ended less than
\* minLoadingTime ms after it began had no fallback but null displayed,
\* whenever in the life of the SmartSuspense it began.
C12_NoLoadingFlash ==
  \A c \in Sections :
    (/\ child[c].n > 0
     /\ ~child[c].suspended
     /\ child[c].endedAt # NoTimer
     /\ child[c].endedAt - child[c].since < MinLoadingTimeOf(c)) =>
      child[c].seen = {"null"}

(* --------------------- properties of RemoteErrorBoundary --------------- *)

\* C13 as stated: retryCount stays within 0..3, in the error state the
\* 'Retry Loading' button is rendered exactly when retryCount < 3, and the
\* displayed attempt number never exceeds 4.
C13_RetryButtonIffRetriesRemain ==
  /\ state.retryCount \in 0..BoundaryMaxRetries
  /\ state.hasError =>
       /\ BoundaryRender.retryButton <=> (state.retryCount < 3)
       /\ BoundaryRender.attempt <= 4

\* C13, amended: retryCount stays within 0..3; in the error state of a
\* boundary whose fallback prop is absent or falsy the 'Retry Loading' button
\* is rendered exactly when retryCount < 3 and the displayed attempt number
\* is retryCount + 1, at most 4; with a truthy fallback prop the fallback is
\* rendered in place of the button and the attempt number.
C13_RetryButtonIffRetriesRemainInDefaultUI ==
  /\ state.retryCount \in 0..BoundaryMaxRetries
  /\ (state.hasError /\ ~Truthy(boundary.fallbackProp)) =>
       /\ BoundaryRender.kind = "errorUI"
       /\ BoundaryRender.retryButton <=> (state.retryCount < 3)
       /\ BoundaryRender.attempt = state.retryCount + 1
       /\ BoundaryRender.attempt <= 4
  /\ (state.hasError /\ Truthy(boundary.fallbackProp)) =>
       /\ BoundaryRender.kind = "props.fallback"
       /\ ~BoundaryRender.retryButton

\* C13 witness: the third retry failed: attempt 4/4 is displayed without a
\* 'Retry Loading' button
C13_Witness ==
  /\ state.hasError
  /\ ~Truthy(boundary.fallbackProp)
  /\ boundary.clicks = 3
  /\ state.retryCount = 3
  /\ BoundaryRender.attempt = 4
  /\ ~BoundaryRender.retryButton

\* C14 as stated: whenever the boundary has caught a render failure, what it
\* renders offers a retry affordance.
C14_ErrorStateOffersRetry ==
  state.hasError => BoundaryRender.retryButton

\* C14, amended: when the boundary has caught a render failure it renders a
\* retry control only while fewer than 3 retries were made and its fallback
\* prop is absent or falsy; activating the control counts the retry, clears the error
\* state and renders the children again, and an error state after it is that
\* of the new render.
C14_RetryOfferedWhileRetriesRemain ==
  /\ [](state.hasError =>
         (BoundaryRender.retryButton <=>
            (state.retryCount < BoundaryMaxRetries /\ ~Truthy(boundary.fallbackProp))))
  /\ [][boundary'.clicks = boundary.clicks + 1 =>
          /\ state.hasError
          /\ BoundaryRender.retryButton
          /\ boundary'.renders = boundary.renders + 1
          /\ state'.retryCount = state.retryCount + 1
          /\ \E e \in RenderErrors \cup {NoValue} :
               state' = AfterChildrenRender(
                          [hasError |-> FALSE, error |-> NoValue,
                           retryCount |-> state.retryCount + 1], e)]_vars

\* C14 witness: 'Retry Loading' was clicked after a caught failure and the
\* children, rendered again, are displayed
C14_Witness ==
  /\ boundary.clicks >= 1
  /\ boundary.renders >= 2
  /\ ~state.hasError
  /\ BoundaryRender.kind = "children"

(* ------------------ properties of the host App's failures -------------- *)

\* C15: in the 2.7 host, a click on 'Retry Loading' in the error fallback
\* starts a new load of the remote (which, the remote being available again,
\* ends with the remote component rendered).
C15_RetryClickStartsNewLoad ==
  [][(state.hasError /\ state'.retryCount = state.retryCount + 1) =>
       ImportsStarted' > ImportsStarted]_vars

\* the load of lazy RemoteApp whose every import fails
EveryImportFails ==
  mounted /\ inv[1].succeedAt = NeverSucceeds

\* C16: in the 2.7 host, if every import of the remote fails, the load makes
\* at most maxRetries + 1 = 4 attempts and the user then eventually sees the
\* error fallback in place of the loading or timeout state.
C16_AllImportsFailLeadsToErrorFallback ==
  /\ [](EveryImportFails => inv[1].calls <= DefaultMaxRetries + 1)
  /\ [](Displayed("RemoteApp") = "errorFallback" => inv[1].pc = "rejected")
  /\ EveryImportFails ~> (Displayed("RemoteApp") = "errorFallback")

\* C16 witness: the fourth import failed and the error fallback is displayed
C16_Witness ==
  /\ EveryImportFails
  /\ inv[1].calls = DefaultMaxRetries + 1
  /\ inv[1].pc = "rejected"
  /\ ~ss["RemoteApp"].mounted
  /\ Displayed("RemoteApp") = "errorFallback"

(* ------------- properties of the React 19 host / React 18 remote ------- *)

\* C17: every failure to load the remote ends in a visible UI state for that
\* failure: the host whose import('remote/App') was rejected does not show
\* an empty container and nothing else.
C17_LoadFailureIsVisible ==
  \A p \in DOMAIN hostImports :
    (/\ hostImports[p].side = "mount"
     /\ hostImports[p].status = "rejected"
     /\ host.mounted
     /\ host.instance = hostImports[p].instance) =>
      HostShows # "emptyContainer"

\* the remote was mounted into the container of the host's mount k
MountedInto(k) ==
  \E a \in DOMAIN wrapperLog :
    wrapperLog[a].op = "mount" /\ wrapperLog[a].element = k

\* C18: once the host App has unmounted after the remote was mounted into
\* its container, and no import is pending any more, the wrapper's unmount()
\* has been called and the remote root is disposed (root is null).
C18_HostUnmountDisposesRemoteRoot ==
  (/\ ~host.mounted
   /\ MountedInto(host.instance)
   /\ \A p \in DOMAIN hostImports : hostImports[p].status # "pending") =>
    /\ root = NoRoot
    /\ \E a \in DOMAIN wrapperLog : wrapperLog[a].op = "unmount"

\* the last call the wrapper received
LastCall ==
  wrapperLog[Len(wrapperLog)]

\* C19: after every call mount(e), whatever mount and unmount calls came
\* before, the remote App is rendered inside the element e of that call.
C19_MountRendersIntoGivenElement ==
  (wrapperLog # <<>> /\ LastCall.op = "mount") => RenderedIn(LastCall.element)

\* the step is a call of the wrapper's operation op
IsCall(op) ==
  /\ Len(wrapperLog') = Len(wrapperLog) + 1
  /\ LastCall'.op = op

\* C20: after unmount() returns the wrapper holds no root and every root it
\* created has been unmounted exactly once; unmount() without a root changes
\* nothing, so a second unmount() is a no-op; a mount() after unmount()
\* creates a fresh root, for the element it is given.
C20_UnmountDisposesRoot ==
  /\ []((wrapperLog # <<>> /\ LastCall.op = "unmount") =>
         /\ root = NoRoot
         /\ \A r \in DOMAIN roots : roots[r].unmounts = 1 /\ ~roots[r].rendered)
  /\ [](\A r \in DOMAIN roots : roots[r].unmounts <= 1)
  /\ [][(IsCall("unmount") /\ root = NoRoot) =>
          (root' = NoRoot /\ roots' = roots)]_vars
  /\ [][(IsCall("mount") /\ root = NoRoot) =>
          /\ roots' = Append(roots, [container |-> LastCall'.element,
                                     rendered |-> TRUE, unmounts |-> 0])
          /\ root' = Len(roots')]_vars

\* C20 witness: mount, unmount, unmount again, then mount: the second
\* unmount found no root and the second mount made the second root
C20_Witness ==
  /\ Len(wrapperLog) = 4
  /\ wrapperLog[1].op = "mount"
  /\ wrapperLog[2].op = "unmount"
  /\ wrapperLog[3].op = "unmount"
  /\ wrapperLog[4].op = "mount"
  /\ Len(roots) = 2
  /\ roots[1].unmounts = 1
  /\ root = 2

(* ---------------- further properties of createRemoteLoader ------------- *)

\* the steps loadWithRetry allows an invocation: attempting, then success,
\* retry (backoff, then attempting again) or exhausted
LoaderTransitions ==
  {<<"idle", "awaiting">>, <<"awaiting", "resolved">>, <<"awaiting", "sleeping">>,
   <<"awaiting", "rejected">>, <<"sleeping", "awaiting">>}

\* C21: if every factory call settles, every invocation of the loader
\* settles after finitely many attempts: it moves attempting -> success,
\* retry or exhausted only, makes at most maxRetries + 1 factory calls and
\* never retries forever.
C21_EveryInvocationSettles ==
  /\ \A i \in Invocations : (inv[i].pc # "idle") ~> Settled(i)
  /\ [](\A i \in Invocations : inv[i].calls <= maxRetries + 1)
  /\ [][\A i \in Invocations :
          inv'[i].pc # inv[i].pc => <<inv[i].pc, inv'[i].pc>> \in LoaderTransitions]_vars

\* C21 witness: an invocation that retried has settled, one by success and
\* one by exhaustion
C21_Witness ==
  /\ inv[1].pc = "rejected"
  /\ inv[1].calls >= 2
  /\ inv[2].pc = "resolved"
  /\ inv[2].calls >= 1

\* the invocations of the loader made so far
Invoked ==
  {i \in Invocations : inv[i].pc # "idle"}

\* C22: the retry counter of one loader is shared by all its invocations: it
\* stays within 0..maxRetries, never decreases, and the invocations made so
\* far, sequential or concurrent, have called the factory at most once each
\* plus once per counted retry, at most m + maxRetries times in total.
C22_SharedRetryCounter ==
  /\ [](retryCount \in 0..maxRetries)
  /\ [][retryCount' >= retryCount]_vars
  /\ [](SumCalls(Invocations) <= Cardinality(Invoked) + retryCount)
  /\ [](SumCalls(Invocations) <= Cardinality(Invoked) + maxRetries)

\* C22 witness: two invocations of a loader with maxRetries = 3 shared the
\* three retries and made 2 + 3 factory calls in total
C22_Witness ==
  /\ maxRetries = DefaultMaxRetries
  /\ retryCount = maxRetries
  /\ Cardinality(Invoked) = 2
  /\ \A i \in Invoked : Settled(i) /\ inv[i].calls >= 2
  /\ SumCalls(Invocations) = 2 + maxRetries

\* C23: an invocation made once the retries of the loader are used up calls
\* the factory exactly once, and if that call rejects it rejects at once,
\* with no backoff wait and no retry.
C23_NoRetryAfterExhaustion ==
  \A i \in Invoked :
    inv[i].rcAtStart = maxRetries =>
      /\ inv[i].calls = 1
      /\ inv[i].delays = <<>>
      /\ inv[i].pc \in {"awaiting", "resolved", "rejected"}
      /\ inv[i].pc = "rejected" => inv[i].settledAt = inv[i].failedAt

\* C23 witness: the first invocation used the three retries and rejected;
\* the second, made afterwards, rejected after one factory call
C23_Witness ==
  /\ maxRetries = DefaultMaxRetries
  /\ inv[1].pc = "rejected"
  /\ inv[1].calls = maxRetries + 1
  /\ inv[2].rcAtStart = maxRetries
  /\ inv[2].startedAt >= inv[1].settledAt
  /\ inv[2].pc = "rejected"
  /\ inv[2].calls = 1

(* --------------------- further properties of the cache ----------------- *)

\* C24: cache entries are never replaced or evicted: an entry, once set,
\* keeps its promise, and every call of preloadRemoteModule after the first
\* for a name returns the promise of the first and invokes no import
\* function, also with another import function and after the promise rejected.
C24_CacheEntriesAreNeverReplaced ==
  /\ [][\A m \in ModuleNames :
          remoteModuleCache[m] # NoPromise => remoteModuleCache'[m] = remoteModuleCache[m]]_vars
  /\ [](\A a, b \in DOMAIN preloadLog :
          (a < b /\ preloadLog[a].moduleName = preloadLog[b].moduleName) =>
            /\ preloadLog[b].returned = preloadLog[a].returned
            /\ ~preloadLog[b].invoked
            /\ remoteModuleCache[preloadLog[a].moduleName] = preloadLog[a].returned)

\* C24 witness: the promise cached for a name rejected, and a later call for
\* that name with another import function returned the same promise
C24_Witness ==
  /\ Len(preloadLog) >= 2
  /\ preloadLog[1].moduleName = preloadLog[2].moduleName
  /\ preloadLog[1].importFn # preloadLog[2].importFn
  /\ preloadLog[2].returned = preloadLog[1].returned
  /\ imports[preloadLog[1].returned].status = "rejected"
  /\ Len(imports) = 1

(* ----------------- further properties of RemoteErrorBoundary ----------- *)

\* C25: the boundary never resets retryCount: only a click on 'Retry
\* Loading' changes it, by exactly +1; catching an error and rendering the
\* children without error leave it unchanged; handleRetry does nothing once
\* retryCount = 3; so at most 3 retries take effect in the life of a boundary.
C25_RetryCountIsNeverReset ==
  /\ [][state'.retryCount # state.retryCount =>
          /\ boundary'.clicks = boundary.clicks + 1
          /\ state'.retryCount = state.retryCount + 1]_vars
  /\ [](state.retryCount = boundary.clicks)
  /\ [](boundary.clicks <= BoundaryMaxRetries)
  /\ [](state.retryCount = BoundaryMaxRetries => handleRetry(state) = state)

\* C25 witness: the children rendered without error after the third retry
\* and retryCount is still 3
C25_Witness ==
  /\ ~state.hasError
  /\ boundary.clicks = 3
  /\ state.retryCount = 3
  /\ boundary.renders >= 5

(* ------------------------------- C26 ----------------------------------- *)

\* the order of the three values of loadingFallback: null, the loading
\* fallback, the timeout message
Stage(f) ==
  CASE f = "null" -> 0
    [] f = "fallback" -> 1
    [] f = "timeout" -> 2

PendingOfKind(c, k) ==
  {t \in TimersOf(ss[c]) \cup effect[c].orphans : t.kind = k}

\* a timer callback of the SmartSuspense c runs in this step
TimerCallbackRuns(c) ==
  /\ ss'[c].cleanupDue = ss[c].cleanupDue
  /\ \/ ss[c].minTimer # NoTimer /\ ss'[c].minTimer = NoTimer
     \/ ss[c].timeoutTimer # NoTimer /\ ss'[c].timeoutTimer = NoTimer

\* C27 as stated: when a SmartSuspense unmounts or its minLoadingTime or
\* timeout prop changes, both pending timers of the previous run of the
\* effect are cancelled: an unmounted instance has no pending timer, no timer
\* callback of an unmounted instance runs its setter, and an instance never
\* has more than one pending timer of each kind.
C27_TimersAreCancelledOnCleanup ==
  /\ [](\A c \in Sections : ~ss[c].mounted => TimersOf(ss[c]) = {})
  /\ [][\A c \in Sections : TimerCallbackRuns(c) => ss[c].mounted]_vars
  /\ [](\A c \in Sections :
          /\ Cardinality(PendingOfKind(c, "minLoadingTime")) <= 1
          /\ Cardinality(PendingOfKind(c, "timeout")) <= 1)

\* C27, amended: the cleanup of the previous run of the effect, which runs in
\* the flush of passive effects after the commit that removed the
\* SmartSuspense or changed minLoadingTime or timeout, cancels both timers:
\* once it has run an unmounted instance has no pending timer, and a mounted
\* one has the two timers the next run of the effect has set and no other;
\* a timer that is due before the cleanup runs still runs, but showFallback
\* and showTimeout of an unmounted instance never change; an instance never
\* has more than one pending timer of each kind.
C27_CleanupCancelsPendingTimers ==
  /\ [](\A c \in Sections :
          (~ss[c].mounted /\ ~ss[c].cleanupDue) => TimersOf(ss[c]) = {})
  /\ [](\A c \in Sections : effect[c].orphans = {})
  /\ [](\A c \in Sections :
          /\ Cardinality(PendingOfKind(c, "minLoadingTime")) <= 1
          /\ Cardinality(PendingOfKind(c, "timeout")) <= 1)
  /\ [][\A c \in Sections :
          (ss'[c].showFallback # ss[c].showFallback
             \/ ss'[c].showTimeout # ss[c].showTimeout)
            => (ss[c].mounted /\ ss'[c].mounted)]_vars
  /\ [][\A c \in Sections :
          (ss[c].cleanupDue /\ ~ss'[c].cleanupDue) =>
            /\ ss'[c].showFallback = ss[c].showFallback
            /\ ss'[c].showTimeout = ss[c].showTimeout
            /\ ss[c].mounted =>
                 /\ ss'[c].minTimer = now + props[c].minLoadingTime
                 /\ ss'[c].timeoutTimer = now + props[c].timeout
            /\ ~ss[c].mounted => TimersOf(ss'[c]) = {}]_vars

\* an instance whose props changed once and which was removed before any
\* timer ran: the minLoadingTime timer ran on the removed instance, without
\* effect, and the cleanup then cancelled the timeout timer
C27_Witness ==
  \E c \in Sections :
    /\ ~ss[c].mounted
    /\ ~ss[c].cleanupDue
    /\ effect[c].runs = 2
    /\ ~ss[c].showFallback
    /\ ~ss[c].showTimeout
    /\ props[c].timeout > DefaultTimeout
    /\ now = DefaultMinLoadingTime
    /\ TimersOf(ss[c]) = {}

(* ------------------------------- C28 ----------------------------------- *)

\* every import('remote/App') the host made has fulfilled with a module that
\* has a default export
AllImportsSucceeded ==
  \A p \in DOMAIN hostImports :
    hostImports[p].status = "resolved" /\ hostImports[p].default

\* C28: after the host's effect ran, was cleaned up and ran again (the host
\* was rendered again), once every import of 'remote/App' has settled
\* successfully the remote is mounted in the host's container, in whatever
\* order the imports resolved.
C28_RemountedHostShowsRemote ==
  (host.mounted /\ host.instance >= 2 /\ AllImportsSucceeded)
    => RenderedIn(host.instance)

(* ------------------------------- C29 ----------------------------------- *)

\* the roots createRoot() made that root.unmount() has not disposed
LiveRoots ==
  {r \in DOMAIN roots : roots[r].unmounts = 0}

\* C29: the wrapper holds at most one React root at any time: mount() calls
\* createRoot only when root is null, so a mount(e2) that finds the root of
\* an earlier mount(e1) creates no root and renders into that root again.
C29_AtMostOneRoot ==
  /\ [](Cardinality(LiveRoots) <= 1)
  /\ [](root # NoRoot => LiveRoots = {root})
  /\ [][Len(roots') > Len(roots) =>
          (root = NoRoot /\ Len(roots') = Len(roots) + 1 /\ root' = Len(roots'))]_vars
  /\ [][(Len(wrapperLog') > Len(wrapperLog)
            /\ wrapperLog'[Len(wrapperLog')].op = "mount"
            /\ root # NoRoot)
          => /\ root' = root
             /\ Len(roots') = Len(roots)
             /\ roots'[root].container = roots[root].container
             /\ roots'[root].rendered]_vars

\* mount(e1) then mount(e2) with another element and no unmount() between
\* them: one root, made for e1, and the remote is rendered in it
C29_Witness ==
  /\ Len(wrapperLog) = 2
  /\ wrapperLog[1].op = "mount" /\ wrapperLog[2].op = "mount"
  /\ wrapperLog[1].element # wrapperLog[2].element
  /\ Len(roots) = 1
  /\ root = 1
  /\ roots[1].container = wrapperLog[1].element
  /\ roots[1].rendered

(* ------------------------------- C30 ----------------------------------- *)

\* the calls of mount() made for the effect run of the host's mount k, whose
\* container is element k
MountCallsOf(k) ==
  {j \in DOMAIN wrapperLog : wrapperLog[j].op = "mount" /\ wrapperLog[j].element = k}

\* the import p of the host settles in this step
Settles(p) ==
  /\ p \in DOMAIN hostImports
  /\ hostImports[p].status = "pending"
  /\ hostImports'[p].status # "pending"

\* C30: the host calls the remote's mount() only when the import of its
\* effect run has resolved, the module has a default export and the container
\* ref is non-null at that moment; an import that resolves after the host was
\* unmounted, or that rejects, leads to no call of mount() for that effect
\* run, and a rejection changes nothing but the promise (the catch block only
\* logs).
C30_MountOnlyWithModuleAndContainer ==
  /\ [][wrapperLog' # wrapperLog =>
          \E p \in DOMAIN hostImports :
            /\ Settles(p)
            /\ hostImports[p].side = "mount"
            /\ hostImports'[p].status = "resolved"
            /\ hostImports'[p].default
            /\ host.mounted
            /\ host.instance = hostImports[p].instance
            /\ wrapperLog' = Append(wrapperLog, [op |-> "mount",
                                                 element |-> hostImports[p].instance])]_vars
  /\ [][\A p \in DOMAIN hostImports :
          (Settles(p)
             /\ (hostImports'[p].status = "rejected"
                   \/ ~hostImports'[p].default
                   \/ remoteRefCurrent(host, hostImports[p].instance) = NoElement))
            => UNCHANGED <<root, roots, wrapperLog, host>>]_vars
  /\ [](\A p \in DOMAIN hostImports :
          LET calls == MountCallsOf(hostImports[p].instance)
          IN  /\ Cardinality(calls) <= 1
              /\ calls # {} => (hostImports[p].status = "resolved" /\ hostImports[p].default))

\* three effect runs: the import of the first rejected, that of the second
\* resolved after the host was unmounted, that of the third resolved while
\* the host was mounted; mount() was called for the third only
C30_Witness ==
  /\ Len(hostImports) = 3
  /\ hostImports[1].status = "rejected"
  /\ hostImports[2].status = "resolved" /\ hostImports[2].default
  /\ hostImports[3].status = "resolved" /\ hostImports[3].default
  /\ wrapperLog = <<[op |-> "mount", element |-> 3]>>
  /\ host.mounted

====
